---- MODULE Spec2Model ----
(***************************************************************************)
(* Model of wivrn::video_encoder_vulkan                                    *)
(* (server/encoder/video_encoder_vulkan.cpp): the decoded-picture-buffer   *)
(* (DPB) bookkeeping of present_image, and the acknowledgement tracker     *)
(* on_feedback.                                                            *)
(*                                                                         *)
(* frame_index is a uint64_t whose "free" value is -1 (all bits set); the  *)
(* model keeps it as the integer -1, so that frame_index + 1 is 0 for a    *)
(* free slot exactly as in the 64-bit arithmetic of the code (real frame   *)
(* indices stay far below 2^64 - 1).                                       *)
(*                                                                         *)
(* Spec: the submission thread (present_image, one call after the other)   *)
(* and feedback packets handled one at a time; the caller numbers frames   *)
(* consecutively from 0 or 1, and a packet names a frame sent earlier.     *)
(* SpecFb: several threads inside on_feedback, one atomic access per step. *)
(* compare_exchange_weak may fail spuriously in both.                      *)
(* SpecMix: submissions interleaved with step-wise on_feedback calls.      *)
(* SpecRc: the rate-control negotiation of the constructor.                *)
(* SpecEnc: present_image and encode on the ring of encode slots, with the *)
(* device signalling the fences.                                           *)
(* SpecLoad: the in-flight ring of load_all_images                         *)
(* (client/render/scene_data.cpp).                                         *)
(***************************************************************************)
EXTENDS Integers, Sequences, FiniteSets, TLC

\* ------------------------------------------------------------------ bounds
\* number of DPB slots (num_dpb_slots, fixed at construction)
NumDpbSlots == 3
\* largest frame_index the caller submits
MaxFrame == 103
\* an acknowledgement names one of the last AckWindow+1 frame indices
AckWindow == 4
\* feedback threads and frame indices of the feedback-only specification
NumFbThreads == 2
MaxFbIndex == 2
\* largest frame_index submitted while on_feedback calls are followed step by step
MaxMixFrame == 1
\* bit width standing for the 64 bits of bitrate and maxBitrate
BitrateBits == 4
\* encode slots of the ring (fences[encode_slot])
NumRingSlots == 2
\* largest frame_index submitted in the encode-ring specification
MaxEncFrame == 2
\* largest number of images in the glTF asset (gltf.images.size())
MaxImages == 4
\* largest frame_index submitted beside the counted on_feedback calls
MaxTermFrame == 0
\* largest frame_index submitted in the pipelined encode-slot specification
MaxPipeFrame == 2
\* largest number of successful exchanges counted for one on_feedback call
MaxExchanges == 3
\* largest frame_index submitted in the specification without acknowledgements
MaxQuietFrame == 201
\* bit width standing for the 32 bits of uint32_t sizes and extents
SizeBits == 4
\* largest width and height of the encode rectangle
MaxExtent == 3
\* largest minBitstreamBufferSizeAlignment the device reports
MaxAlignment == 4
\* largest number of formats the device advertises for one usage
MaxFormats == 2

\* ------------------------------------------------------- program constants
\* "Avoid sending many IDR in a row": frame_num < 100
IdrThreshold == 100
\* dpb_item::frame_index of a free slot (slot.frame_index = -1)
FreeFrame == -1
\* VideoReferenceSlotInfoKHR::slotIndex of a slot not registered with the device
Unregistered == -1
\* dpb_item * ref_slot = nullptr (also std::nullopt given to encode_info_next)
nullptr == -1
\* initial value of last_ack: nothing acknowledged
NoAck == 0
\* rate_control: .virtualBufferSizeInMs and .initialVirtualBufferSizeInMs
VirtualBufferSizeInMs == 5000
InitialVirtualBufferSizeInMs == 4000
\* output_buffer_size of an initialized encoder with a rectangle of one pixel:
\* rect.extent.width * rect.extent.height * 3
UnitOutputBufferSize == 3
\* load_all_images: int num_images_in_flight = 3
num_images_in_flight == 3

Slots == 0 .. (NumDpbSlots - 1)
FbThreads == 1 .. NumFbThreads
RingSlots == 0 .. (NumRingSlots - 1)
\* values of a uint64_t bitrate, in the model's width
Bitrates == 0 .. (2 ^ BitrateBits - 1)

VARIABLES
    dpb,                 \* slot -> [frame_index, slotIndex, pPictureResource]
    frame_num,           \* submissions since the last full reset
    last_ack,            \* std::atomic: last acknowledged frame index
    session_initialized, \* one-shot flag set by the first submission
    cmd,                 \* what the last present_image recorded
    last_frame,          \* caller: frame_index of the last submission (-1: none)
    fb_pc, fb_prev, fb_arg, fb_sent, \* on_feedback calls in progress (per thread)
    fb_exchanged,        \* history: successful exchanges of the call in progress
    obs,                 \* history: what the last submission saw and chose
    nsub,                \* history: number of submissions
    acked,               \* history: some on_feedback(.., true) was issued
    ackedLatest,         \* history: on_feedback(last_frame, true) returned since
    quietRun,            \* history: reference-coded submissions since last_ack changed
    delivered,           \* history: max of NoAck and the delivered indices
    overlapped,          \* history: two on_feedback calls were in progress at once
    rc_pc,               \* constructor: "new" before it ran, "constructed" after
    in_encode_caps,      \* constructor argument: device capabilities as reported
    bitrate,             \* constructor argument: requested bitrate
    encode_caps,         \* member: patched capabilities
    rate_control_layer,  \* member: [averageBitrate, maxBitrate]
    rate_control,        \* member: std::optional rate-control info
    fences,              \* encode slot -> fence stored for it, by its device state
    enc_ret,             \* how the last encode() call went
    pending_result,      \* history: encode slots submitted since their last result
    query_slot,          \* history: encode slot whose submission last wrote the query
                         \* and the output buffer
    output_buffer_size,  \* member: size in bytes of output_buffer
    init_pc,             \* init(): "new" before it ran, then "done" or "thrown"
    video_formats,       \* device: formats advertised per usage [src, dpb]
    rect,                \* member: encode rectangle extent [width, height]
    video_caps,          \* init argument: [minBitstreamBufferSizeAlignment]
    created,             \* device objects init() has created
    ld_pc,              \* load_all_images: "idle", "loop", "done"
    images,              \* load_all_images: gltf.images.size()
    index,               \* load_all_images: loop index
    load_fences,         \* load_all_images: ring position -> [first, second]
    inflight,            \* device: images whose submission has not completed
    ld_last              \* history: the last loop iteration

vars == <<dpb, frame_num, last_ack, session_initialized, cmd, last_frame,
          fb_pc, fb_prev, fb_arg, fb_sent, fb_exchanged, obs, nsub, acked, ackedLatest,
          quietRun, delivered, overlapped,
          rc_pc, in_encode_caps, bitrate, encode_caps, rate_control_layer,
          rate_control, fences, enc_ret, pending_result,
          query_slot, output_buffer_size,
          init_pc, video_formats, rect, video_caps, created,
          ld_pc, images, index, load_fences, inflight, ld_last>>

encVars == <<dpb, frame_num, session_initialized, cmd, last_frame, obs, nsub,
             quietRun>>
fbVars == <<fb_pc, fb_prev, fb_arg, fb_sent, fb_exchanged>>
rcVars == <<rc_pc, in_encode_caps, bitrate, encode_caps, rate_control_layer,
            rate_control>>
ringVars == <<fences, enc_ret, pending_result, query_slot>>
initVars == <<output_buffer_size, init_pc, video_formats, rect, video_caps, created>>
loadVars == <<ld_pc, images, index, load_fences, inflight, ld_last>>

Max(a, b) == IF a >= b THEN a ELSE b
Min(a, b) == IF a <= b THEN a ELSE b

\* --------------------------------------------------------- present_image

\* the comparator of std::ranges::min_element: a.frame_index + 1 < b.frame_index + 1
SlotLess(a, b) == a.frame_index + 1 < b.frame_index + 1

\* std::ranges::min_element over dpb: the first slot no other slot is less than
RECURSIVE MinElement(_, _, _)
MinElement(d, i, best) ==
    IF i >= NumDpbSlots THEN best
    ELSE IF SlotLess(d[i], d[best]) THEN MinElement(d, i + 1, i)
    ELSE MinElement(d, i + 1, best)

RECURSIVE MinElementLastTie(_, _, _)
MinElementLastTie(d, i, best) ==
    IF i >= NumDpbSlots THEN best
    ELSE IF ~SlotLess(d[best], d[i]) THEN MinElementLastTie(d, i + 1, i)
    ELSE MinElementLastTie(d, i + 1, best)

\* mutant: ties resolved to the last slot (comparison <= instead of <)
SetupSlotLastTie(d) == MinElementLastTie(d, 1, 0)

\* slot_index = distance(dpb.begin(), min_element(dpb, ...))
SetupSlot(d) == MinElement(d, 1, 0)

\* the loop looking for the acknowledged frame: first registered slot holding last_ack
RECURSIVE AckLoop(_, _, _)
AckLoop(d, la, i) ==
    IF i >= NumDpbSlots THEN nullptr
    ELSE IF d[i].frame_index = la /\ d[i].slotIndex # Unregistered THEN i
    ELSE AckLoop(d, la, i + 1)

RECURSIVE AckLoopOffByOne(_, _, _)
AckLoopOffByOne(d, la, i) ==
    IF i >= NumDpbSlots THEN nullptr
    ELSE IF d[i].frame_index = la + 1 /\ d[i].slotIndex # Unregistered THEN i
    ELSE AckLoopOffByOne(d, la, i + 1)

\* mutant: the frame after the acknowledged one is looked for
AckRefSlotOffByOne(d, la) == AckLoopOffByOne(d, la, 0)

AckRefSlot(d, la) == AckLoop(d, la, 0)

\* the fallback loop: it leaves at the first registered slot that is taken
RECURSIVE FallbackLoop(_, _, _)
FallbackLoop(d, ref, i) ==
    IF i >= NumDpbSlots THEN ref
    ELSE IF d[i].slotIndex # Unregistered
              /\ (ref = nullptr \/ d[ref].frame_index < d[i].frame_index)
         THEN i
    ELSE FallbackLoop(d, ref, i + 1)

\* mutant: the fallback finds nothing
FallbackRefSlotNone(d) == nullptr

FallbackRefSlot(d) == FallbackLoop(d, nullptr, 0)

\* mutant: the threshold test is dropped, the fallback is always allowed
UseFallbackAlways(fn, ref) == ref = nullptr

\* mutant: the threshold is compared with <=
UseFallbackLeq(fn, ref) == fn <= IdrThreshold /\ ref = nullptr

\* if (frame_num < 100 and not ref_slot)
UseFallback(fn, ref) == fn < IdrThreshold /\ ref = nullptr

\* mutant: the reset frees the slots and leaves them registered
FullResetKeepsSlotIndex(d) ==
    [i \in Slots |-> [frame_index |-> FreeFrame, slotIndex |-> d[i].slotIndex,
                      pPictureResource |-> FALSE]]

\* mutant: the acknowledgement is consumed by the read (exchange instead of load)
LoadLastAckExchange(mem) == [value |-> mem, mem |-> NoAck]

\* auto last_ack = this->last_ack.load(): the value read, and the atomic afterwards
LoadLastAck(mem) == [value |-> mem, mem |-> mem]

\* the full reset: every slot unregistered, without picture, free
FullReset(d) ==
    [i \in Slots |-> [frame_index |-> FreeFrame, slotIndex |-> Unregistered,
                      pPictureResource |-> FALSE]]

\* mutant: the setup slot stays registered during the reference search
SetupSlotKeptRegistered(d, slot_index) == d

\* slot->info.slotIndex = -1: the setup slot is unregistered before the search
UnregisterSetupSlot(d, slot_index) ==
    [d EXCEPT ![slot_index].slotIndex = Unregistered]

\* mutant: the session is initialized again by every submission
SessionInitializationEveryTime(init0) ==
    [control |-> TRUE, dpb_barrier |-> TRUE, session_initialized |-> TRUE]

\* if (not session_initialized) { controlVideoCodingKHR; pipelineBarrier2;
\* session_initialized = true; }
SessionInitialization(init0) ==
    [control |-> ~init0, dpb_barrier |-> ~init0, session_initialized |-> TRUE]

\* mutant: the query is reset after it has ended
RecordedCommandsLateReset(control, dpb_barrier) ==
    <<"beginVideoCodingKHR">>
    \o (IF control THEN <<"controlVideoCodingKHR">> ELSE <<>>)
    \o (IF dpb_barrier THEN <<"pipelineBarrier2">> ELSE <<>>)
    \o <<"beginQuery", "encodeVideoKHR", "endQuery", "resetQueryPool",
         "endVideoCodingKHR", "end">>

\* the calls made on command_buffer, in the order of the statements of
\* present_image
RecordedCommands(control, dpb_barrier) ==
    <<"resetQueryPool", "beginVideoCodingKHR">>
    \o (IF control THEN <<"controlVideoCodingKHR">> ELSE <<>>)
    \o (IF dpb_barrier THEN <<"pipelineBarrier2">> ELSE <<>>)
    \o <<"beginQuery", "encodeVideoKHR", "endQuery", "endVideoCodingKHR", "end">>

\* present_image, from the choice of the setup slot to ++frame_num
PresentImageResult(d0, fn0, la, init0, frame_index) ==
    LET slot_index == SetupSlot(d0)
        d1 == UnregisterSetupSlot(d0, slot_index)
        r1 == AckRefSlot(d1, la)
        ref_slot == IF UseFallback(fn0, r1) THEN FallbackRefSlot(d1) ELSE r1
        reset == ref_slot = nullptr
        fn1 == IF reset THEN 0 ELSE fn0
        d2 == IF reset THEN FullReset(d1) ELSE d1
        d3 == [d2 EXCEPT ![slot_index].frame_index = frame_index,
                         ![slot_index].pPictureResource = TRUE]
        d4 == [d3 EXCEPT ![slot_index].slotIndex = slot_index]
        si == SessionInitialization(init0)
    IN  [dpb |-> d4,
         frame_num |-> fn1 + 1,
         session_initialized |-> si.session_initialized,
         cmd |-> [resetQueryPool |-> TRUE,
                  commands |-> RecordedCommands(si.control, si.dpb_barrier),
                  referenceSlots |-> [i \in Slots |-> d3[i].slotIndex],
                  control |-> si.control,
                  dpb_barrier |-> si.dpb_barrier,
                  encode |-> [frame_num |-> fn1,
                              slot_index |-> slot_index,
                              ref |-> IF ref_slot # nullptr
                                      THEN d4[ref_slot].slotIndex ELSE nullptr,
                              setupSlotIndex |-> d4[slot_index].slotIndex]],
         obs |-> [frame_index |-> frame_index,
                  dpb |-> d0,
                  search |-> d1,
                  frame_num |-> fn0,
                  last_ack |-> la,
                  slot_index |-> slot_index,
                  ref_slot |-> ref_slot,
                  reset |-> reset]]

\* --------------------------------------------------------- on_feedback

\* mutant: the new value is stored whatever the atomic holds
CompareExchangeStore(mem, expected, desired) ==
    {[ok |-> TRUE, mem |-> desired, expected |-> expected]}

\* last_ack.compare_exchange_weak(expected, desired) on memory value mem:
\* the outcomes [ok, mem, expected]; a weak exchange may fail spuriously
CompareExchangeWeak(mem, expected, desired) ==
    IF mem = expected
    THEN {[ok |-> TRUE, mem |-> desired, expected |-> expected],
          [ok |-> FALSE, mem |-> mem, expected |-> mem]}
    ELSE {[ok |-> FALSE, mem |-> mem, expected |-> mem]}

\* the while loop of on_feedback run alone: the possible final values of last_ack
RECURSIVE FeedbackLoop(_, _, _)
FeedbackLoop(mem, prev, idx) ==
    IF prev < idx
    THEN UNION {IF o.ok THEN FeedbackLoop(o.mem, o.expected, idx) ELSE {o.mem}
                : o \in CompareExchangeWeak(mem, prev, idx)}
    ELSE {mem}

\* on_feedback(feedback) with no other call in progress
OnFeedbackResult(mem, idx, sent) ==
    IF sent THEN FeedbackLoop(mem, mem, idx) ELSE {mem}

\* ------------------------------------------------------------ the encoder

\* the DPB after init(): no slot registered (slotIndex = -1, pPictureResource =
\* nullptr), every frame_index at its default member initialiser, free
FreshDpb ==
    [i \in Slots |-> [frame_index |-> FreeFrame, slotIndex |-> Unregistered,
                      pPictureResource |-> FALSE]]

NoCmd == [resetQueryPool |-> FALSE,
          commands |-> <<>>,
          referenceSlots |-> [i \in Slots |-> Unregistered],
          control |-> FALSE, dpb_barrier |-> FALSE,
          encode |-> [frame_num |-> 0, slot_index |-> 0, ref |-> nullptr,
                      setupSlotIndex |-> Unregistered]]

NoObs == [frame_index |-> -1, dpb |-> FreshDpb, search |-> FreshDpb,
          frame_num |-> 0, last_ack |-> NoAck, slot_index |-> 0,
          ref_slot |-> nullptr, reset |-> FALSE, ackedLatest |-> FALSE,
          prev_frame |-> -1]

\* no encode slot: nothing has written the query, no feedback was read
NoSlot == -1

\* no encode() call yet
NoSpan == [offset |-> 0, length |-> 0]
NoEncode == [encode_slot |-> -1, idr |-> FALSE, send_idr_data |-> FALSE,
             wait |-> "none", query |-> "none", result |-> "none",
             logged |-> FALSE, span |-> NoSpan, first |-> FALSE,
             source |-> NoSlot]

\* eDefault is the empty set of rate-control mode flags
eDefault == {}
RateControlModeFlags == SUBSET {"eDisabled", "eCbr", "eVbr"}
NoCaps == [rateControlModes |-> eDefault, maxBitrate |-> 0]
NoLayer == [averageBitrate |-> 0, maxBitrate |-> 0]
\* rate_control.reset(): the optional holds nothing
NoRateControl == [rateControlMode |-> "nullopt", virtualBufferSizeInMs |-> 0,
                  initialVirtualBufferSizeInMs |-> 0]

\* the constructor has not run
InitRcIdle ==
    /\ rc_pc = "new"
    /\ in_encode_caps = NoCaps
    /\ bitrate = 0
    /\ encode_caps = NoCaps
    /\ rate_control_layer = NoLayer
    /\ rate_control = NoRateControl

\* load_all_images: positions of the in-flight ring
LoadSlots == 0 .. (num_images_in_flight - 1)

\* no loop iteration yet
NoIteration == [index |-> -1, wait |-> "none", busy |-> FALSE,
                overwritten |-> FALSE, error |-> FALSE]

\* load_all_images has not been called
InitLoadIdle ==
    /\ ld_pc = "idle"
    /\ images = 0
    /\ index = 0
    /\ load_fences = [k \in LoadSlots |-> [first |-> "signaled", second |-> -1]]
    /\ inflight = {}
    /\ ld_last = NoIteration

\* the format init() accepts for the encoder input image
ExpectedFormat == "eG8B8R82Plane420Unorm"

\* the device objects init() creates, in the order of their creation
InitObjects == <<"dpb_image", "output_buffer", "video_session", "dpb_image_views",
                 "video_session_parameters", "query_pool">>

\* init() has run for a rectangle of one pixel on a device advertising the
\* expected format and no alignment
InitInitialized ==
    /\ init_pc = "done"
    /\ video_formats = [src |-> <<ExpectedFormat>>, dpb |-> <<ExpectedFormat>>]
    /\ rect = [width |-> 1, height |-> 1]
    /\ video_caps = [minBitstreamBufferSizeAlignment |-> 0]
    /\ created = {InitObjects[n] : n \in 1 .. Len(InitObjects)}
    /\ output_buffer_size = UnitOutputBufferSize

InitEncoder ==
    /\ fences = [k \in RingSlots |-> "null"]
    /\ enc_ret = NoEncode
    /\ query_slot = NoSlot
    /\ pending_result = {}
    /\ dpb = FreshDpb
    /\ frame_num = 0
    /\ last_ack = NoAck
    /\ session_initialized = FALSE
    /\ cmd = NoCmd
    /\ last_frame = -1
    /\ fb_pc = [t \in FbThreads |-> "idle"]
    /\ fb_prev = [t \in FbThreads |-> 0]
    /\ fb_arg = [t \in FbThreads |-> 0]
    /\ fb_sent = [t \in FbThreads |-> FALSE]
    /\ fb_exchanged = [t \in FbThreads |-> 0]
    /\ obs = NoObs
    /\ nsub = 0
    /\ acked = FALSE
    /\ ackedLatest = FALSE
    /\ quietRun = 0
    /\ delivered = NoAck
    /\ overlapped = FALSE

Init == InitEncoder /\ InitRcIdle /\ InitLoadIdle /\ InitInitialized

\* the caller submits the next frame, with a strictly larger frame_index <= maxf,
\* for an encode slot: any slot, or the slots taken in turn
PresentImage(maxf, anySlot) ==
    \E frame_index \in (IF last_frame = -1 THEN {0, 1} ELSE {last_frame + 1}) :
      \E encode_slot \in (IF anySlot THEN RingSlots
                                     ELSE {frame_index % NumRingSlots}) :
        LET la == LoadLastAck(last_ack)
            r == PresentImageResult(dpb, frame_num, la.value, session_initialized,
                                    frame_index)
        IN  /\ frame_index <= maxf
            /\ last_ack' = la.mem
            /\ dpb' = r.dpb
            /\ frame_num' = r.frame_num
            /\ session_initialized' = r.session_initialized
            /\ cmd' = r.cmd
            /\ obs' = r.obs @@ [ackedLatest |-> ackedLatest, prev_frame |-> last_frame]
            /\ last_frame' = frame_index
            /\ nsub' = nsub + 1
            /\ ackedLatest' = FALSE
            /\ quietRun' = IF r.obs.reset THEN 0 ELSE quietRun + 1
            /\ fences' = [fences EXCEPT ![encode_slot] = "pending"]
            /\ pending_result' = pending_result \cup {encode_slot}
            /\ UNCHANGED <<fbVars, acked, delivered, overlapped, enc_ret, query_slot, rcVars,
                           loadVars, initVars>>

present_image == PresentImage(MaxFrame, FALSE)

\* the network thread delivers a feedback packet about a frame sent earlier
on_feedback ==
    /\ last_frame >= 0
    /\ \E idx \in Max(0, last_frame - AckWindow) .. last_frame, sent \in BOOLEAN :
         \E la \in OnFeedbackResult(last_ack, idx, sent) :
            /\ last_ack' = la
            /\ acked' = (acked \/ sent)
            /\ ackedLatest' = (ackedLatest \/ (sent /\ idx = last_frame))
            /\ quietRun' = IF la # last_ack THEN 0 ELSE quietRun
    /\ UNCHANGED <<dpb, frame_num, session_initialized, cmd, last_frame, obs, nsub,
                   fbVars, delivered, overlapped, rcVars, ringVars, loadVars, initVars>>

Next == present_image \/ on_feedback

Spec == Init /\ [][Next]_vars

\* ------------------------------------------- on_feedback, step by step
\* Several threads call on_feedback; each access to the atomic is one step.

\* mutant: the sent_to_decoder flag is not looked at
FbEntryIgnoresFlag(sent) == "load"

\* if (feedback.sent_to_decoder): where the call goes from its entry
FbEntry(sent) == IF sent THEN "load" ELSE "idle"

\* a thread calls on_feedback(feedback)
FbCall(t, history) ==
    /\ fb_pc[t] = "idle"
    /\ \E idx \in 0 .. MaxFbIndex, sent \in BOOLEAN :
          /\ fb_arg' = [fb_arg EXCEPT ![t] = idx]
          /\ fb_sent' = [fb_sent EXCEPT ![t] = sent]
          /\ fb_pc' = [fb_pc EXCEPT ![t] = "entry"]
          /\ IF history
             THEN /\ delivered' = IF sent THEN Max(delivered, idx) ELSE delivered
                  /\ acked' = (acked \/ sent)
                  /\ overlapped' =
                        (overlapped \/ (sent /\ \E u \in FbThreads : fb_pc[u] # "idle"))
             ELSE UNCHANGED <<delivered, acked, overlapped>>
    /\ UNCHANGED <<last_ack, fb_prev, fb_exchanged, encVars, ackedLatest, rcVars, ringVars,
                   loadVars, initVars>>

\* a call whose delivered indices are kept as history
fb_call(t) == FbCall(t, TRUE)

\* the call returns: its argument and its local prev are gone
FbReturn(t) ==
    /\ fb_pc' = [fb_pc EXCEPT ![t] = "idle"]
    /\ fb_prev' = [fb_prev EXCEPT ![t] = 0]
    /\ fb_arg' = [fb_arg EXCEPT ![t] = 0]
    /\ fb_sent' = [fb_sent EXCEPT ![t] = FALSE]
    /\ fb_exchanged' = [fb_exchanged EXCEPT ![t] = 0]

\* the test of sent_to_decoder: without it the call returns
fb_entry(t) ==
    /\ fb_pc[t] = "entry"
    /\ IF FbEntry(fb_sent[t]) = "idle"
       THEN FbReturn(t)
       ELSE /\ fb_pc' = [fb_pc EXCEPT ![t] = FbEntry(fb_sent[t])]
            /\ UNCHANGED <<fb_prev, fb_arg, fb_sent, fb_exchanged>>
    /\ UNCHANGED <<last_ack, encVars, acked, ackedLatest, delivered, overlapped,
                   rcVars, ringVars, loadVars, initVars>>

\* auto prev = last_ack.load()
fb_load(t) ==
    /\ fb_pc[t] = "load"
    /\ fb_prev' = [fb_prev EXCEPT ![t] = last_ack]
    /\ fb_pc' = [fb_pc EXCEPT ![t] = "loop"]
    /\ UNCHANGED <<last_ack, fb_arg, fb_sent, fb_exchanged, encVars, acked, ackedLatest, delivered,
                   overlapped, rcVars, ringVars, loadVars, initVars>>

\* one evaluation of the loop condition:
\* prev < feedback.frame_index and last_ack.compare_exchange_weak(prev, feedback.frame_index)
FbLoop(t, history) ==
    /\ fb_pc[t] = "loop"
    /\ IF fb_prev[t] < fb_arg[t]
       THEN \E o \in CompareExchangeWeak(last_ack, fb_prev[t], fb_arg[t]) :
              /\ last_ack' = o.mem
              /\ IF o.ok
                 THEN /\ fb_prev' = [fb_prev EXCEPT ![t] = o.expected]
                      /\ fb_exchanged' =
                            IF history
                            THEN [fb_exchanged EXCEPT ![t] = Min(@ + 1, MaxExchanges)]
                            ELSE fb_exchanged
                      /\ UNCHANGED <<fb_pc, fb_arg, fb_sent>>
                 ELSE FbReturn(t)
       ELSE /\ FbReturn(t)
            /\ UNCHANGED last_ack
    /\ UNCHANGED <<encVars, acked, ackedLatest, delivered, overlapped,
                   rcVars, ringVars, loadVars, initVars>>

\* the loop, with its successful exchanges counted
fb_loop(t) == FbLoop(t, TRUE)

NextFb == \E t \in FbThreads : fb_call(t) \/ fb_entry(t) \/ fb_load(t) \/ fb_loop(t)

SpecFb == Init /\ [][NextFb]_vars

\* the feedback threads together with the submission thread
present_image_mix == PresentImage(MaxMixFrame, FALSE)

\* a call, without the history of delivered indices
fb_call_mix(t) == FbCall(t, FALSE)

\* the loop, without the count of its exchanges
fb_loop_mix(t) == FbLoop(t, FALSE)

NextMix ==
    \/ \E t \in FbThreads : fb_call_mix(t) \/ fb_entry(t) \/ fb_load(t) \/ fb_loop_mix(t)
    \/ present_image_mix

SpecMix == Init /\ [][NextMix]_vars

\* the feedback threads, their exchanges counted, with the submission thread
present_image_term == PresentImage(MaxTermFrame, FALSE)

NextTerm ==
    \/ \E t \in FbThreads : fb_call_mix(t) \/ fb_entry(t) \/ fb_load(t) \/ fb_loop(t)
    \/ present_image_term

SpecTerm == Init /\ [][NextTerm]_vars

\* ------------------------------------------- rate-control negotiation
\* what the device reports: any set of mode flags, any maxBitrate
Capabilities == [rateControlModes : RateControlModeFlags, maxBitrate : Bitrates]

\* mutant: the capabilities are taken as reported
PatchCapabilitiesIdentity(caps) == caps

\* patch_capabilities: CBR or VBR advertised with maxBitrate == 0
patch_capabilities(caps) ==
    IF caps.rateControlModes \cap {"eCbr", "eVbr"} # {} /\ caps.maxBitrate = 0
    THEN [caps EXCEPT !.rateControlModes = eDefault]
    ELSE caps

\* mutant: VBR is looked at before CBR
RateControlModeVbrFirst(modes) ==
    IF "eVbr" \in modes THEN "eVbr"
    ELSE IF "eCbr" \in modes THEN "eCbr"
    ELSE "nullopt"

\* the if / else if / else at the end of the constructor
RateControlMode(modes) ==
    IF "eCbr" \in modes THEN "eCbr"
    ELSE IF "eVbr" \in modes THEN "eVbr"
    ELSE "nullopt"

\* mutant: the requested bitrate is not clamped
RateControlLayerUnclamped(requested, maxBitrate, mode) ==
    [averageBitrate |-> requested,
     maxBitrate |-> IF mode = "eCbr" THEN requested
                    ELSE Min((2 * requested) % (2 ^ BitrateBits), maxBitrate)]

\* rate_control_layer as the constructor leaves it; 2 * bitrate is unsigned
\* arithmetic of the width of bitrate
RateControlLayer(requested, maxBitrate, mode) ==
    LET averageBitrate == Min(requested, maxBitrate)
    IN  [averageBitrate |-> averageBitrate,
         maxBitrate |-> IF mode = "eCbr" THEN averageBitrate
                        ELSE Min((2 * requested) % (2 ^ BitrateBits), maxBitrate)]

\* the constructor video_encoder_vulkan(vk, rect, in_encode_caps, fps, bitrate)
construct ==
    /\ rc_pc = "new"
    /\ LET caps == patch_capabilities(in_encode_caps)
           mode == RateControlMode(caps.rateControlModes)
       IN  /\ encode_caps' = caps
           /\ rate_control_layer' = RateControlLayer(bitrate, caps.maxBitrate, mode)
           /\ rate_control' =
                  IF mode = "nullopt" THEN NoRateControl
                  ELSE [rateControlMode |-> mode,
                        virtualBufferSizeInMs |-> VirtualBufferSizeInMs,
                        initialVirtualBufferSizeInMs |-> InitialVirtualBufferSizeInMs]
    /\ rc_pc' = "constructed"
    /\ UNCHANGED <<in_encode_caps, bitrate, last_ack, encVars, fbVars, acked,
                   ackedLatest, delivered, overlapped, ringVars, loadVars, initVars>>

\* the arguments of the constructor: any capabilities, any bitrate
InitRc ==
    /\ InitEncoder
    /\ InitLoadIdle
    /\ init_pc = "new"
    /\ video_formats = [src |-> <<ExpectedFormat>>, dpb |-> <<ExpectedFormat>>]
    /\ rect = [width |-> 1, height |-> 1]
    /\ video_caps = [minBitstreamBufferSizeAlignment |-> 0]
    /\ created = {}
    /\ output_buffer_size = 0
    /\ rc_pc = "new"
    /\ in_encode_caps \in Capabilities
    /\ bitrate \in Bitrates
    /\ encode_caps = NoCaps
    /\ rate_control_layer = NoLayer
    /\ rate_control = NoRateControl

NextRc == construct

SpecRc == InitRc /\ [][NextRc]_vars

\* ------------------------------------------------------------------ init
\* a uint32_t value, in the model's width
U32(x) == x % (2 ^ SizeBits)

\* mutant: rounds down to a multiple of the alignment
AlignDown(value, alignment) ==
    IF alignment = 0 THEN value
    ELSE U32(alignment * (value \div alignment))

\* static uint32_t align(uint32_t value, uint32_t alignment)
align(value, alignment) ==
    IF alignment = 0 THEN value
    ELSE U32(alignment * U32(1 + (U32(value - 1) \div alignment)))

\* select_video_format: the first advertised format, or
\* throw std::runtime_error("No suitable image format found")
select_video_format(formats) ==
    IF formats = <<>> THEN [thrown |-> TRUE, format |-> "none"]
    ELSE [thrown |-> FALSE, format |-> formats[1]]

\* mutant: any input format is taken
InputFormatAny(format) == TRUE

\* picture_format.format != vk::Format::eG8B8R82Plane420Unorm throws
InputFormatSupported(format) == format = ExpectedFormat

\* init(): whether it throws, and the output buffer size if it does not. Both
\* format selections and the input format test come before the first object is
\* created.
InitResult(formats, extent, caps) ==
    LET picture_format == select_video_format(formats.src)
        reference_picture_format == select_video_format(formats.dpb)
    IN  IF picture_format.thrown THEN [thrown |-> TRUE, size |-> 0]
        ELSE IF ~InputFormatSupported(picture_format.format)
        THEN [thrown |-> TRUE, size |-> 0]
        ELSE IF reference_picture_format.thrown THEN [thrown |-> TRUE, size |-> 0]
        ELSE [thrown |-> FALSE,
              size |-> align(U32(U32(extent.width * extent.height) * 3),
                             caps.minBitstreamBufferSizeAlignment)]

\* init(video_caps, video_profile, ...)
init ==
    /\ init_pc = "new"
    /\ LET r == InitResult(video_formats, rect, video_caps)
       IN  IF r.thrown
           THEN /\ init_pc' = "thrown"
                /\ UNCHANGED <<created, output_buffer_size>>
           ELSE /\ init_pc' = "done"
                /\ created' = {InitObjects[n] : n \in 1 .. Len(InitObjects)}
                /\ output_buffer_size' = r.size
    /\ UNCHANGED <<video_formats, rect, video_caps, last_ack, encVars, fbVars, acked,
                   ackedLatest, delivered, overlapped, rcVars, ringVars, loadVars>>

\* formats of the model: the expected one and another one
Formats == {ExpectedFormat, "eG8B8G8R8422Unorm"}
FormatLists == UNION {[1 .. n -> Formats] : n \in 0 .. MaxFormats}

\* init() has not run: what the device advertises, the rectangle and the
\* alignment are arbitrary
InitUninitialized ==
    /\ init_pc = "new"
    /\ video_formats \in [src : FormatLists, dpb : FormatLists]
    /\ rect \in [width : 0 .. MaxExtent, height : 0 .. MaxExtent]
    /\ video_caps \in [minBitstreamBufferSizeAlignment : 0 .. MaxAlignment]
    /\ created = {}
    /\ output_buffer_size = 0

InitInit == InitEncoder /\ InitRcIdle /\ InitLoadIdle /\ InitUninitialized

NextInit == init

SpecInit == InitInit /\ [][NextInit]_vars

\* ------------------------------------------------- the ring of encode slots
\* fences[k] is "null" until present_image stores a fence for slot k; the caller
\* submits the recorded command buffer with that fence, which is "pending" until
\* the device signals it.

\* vk.device.waitForFences(fence, true, 1'000'000'000): the result and the fence
\* afterwards. A pending fence is signalled within the second or not; a lost
\* device is reported at any time.
WaitForFences(fence) ==
    {[res |-> "eSuccess", fence |-> "signaled"],
     [res |-> "eErrorDeviceLost", fence |-> fence]}
    \cup (IF fence = "pending" THEN {[res |-> "eTimeout", fence |-> fence]} ELSE {})

\* query_pool.getResults(..., eWait): the success codes of the call, and the
\* error its binding throws
GetResults == {"eSuccess", "eNotReady", "eErrorDeviceLost"}

\* the feedback words a completed encode operation leaves in the query: offset and
\* bytes written, a non-empty range of the dstBufferRange (output_buffer_size)
\* given to encodeVideoKHR
DeviceFeedback(size) ==
    {[offset |-> o, length |-> l] : o \in 0 .. (size - 1), l \in 1 .. size} \ 
    {f \in [offset : 0 .. (size - 1), length : 1 .. size] : f.offset + f.length > size}

\* the feedback vector getResults returns with a result: the device's words on
\* eSuccess, the zero-initialized vector when nothing was written
QueryFeedback(query, size) ==
    IF query = "eSuccess" THEN DeviceFeedback(size) ELSE {NoSpan}

\* mutant: the result of the fence wait is not looked at
EncodeOutcomeIgnoresWait(wait, query) ==
    IF query = "eErrorDeviceLost"
    THEN [result |-> "throw", query |-> query, logged |-> FALSE]
    ELSE [result |-> "data", query |-> query, logged |-> query # "eSuccess"]

\* encode() after send_idr_data: what the call does with the two results.
\* waitForFences returns eSuccess or eTimeout and the binding throws on anything
\* else; getResults returns eSuccess or eNotReady and the binding throws on
\* anything else.
EncodeOutcome(wait, query) ==
    IF wait # "eSuccess"
    THEN [result |-> "throw", query |-> "none", logged |-> FALSE]
    ELSE IF query = "eErrorDeviceLost"
    THEN [result |-> "throw", query |-> query, logged |-> FALSE]
    ELSE [result |-> "data", query |-> query, logged |-> query # "eSuccess"]

\* mutant: the side channel is never triggered
SendIdrDataNever(idr) == FALSE

\* if (idr) send_idr_data(): whether the side channel is triggered
SendIdrData(idr) == idr

\* encode(idr, target_timestamp, encode_slot), called for a slot that was
\* submitted. A wait that succeeds on a pending fence means the device has
\* executed the slot's submission meanwhile. With history, the slot whose
\* submission last wrote the single query and the single output buffer is kept,
\* and the call records whose feedback it read.
Encode(history) ==
    \E encode_slot \in RingSlots, idr \in BOOLEAN :
        /\ fences[encode_slot] # "null"
        /\ \E w \in WaitForFences(fences[encode_slot]), q \in GetResults :
              LET o == EncodeOutcome(w.res, q)
                  written == IF w.res = "eSuccess" /\ fences[encode_slot] = "pending"
                             THEN encode_slot ELSE query_slot
              IN  /\ fences' = [fences EXCEPT ![encode_slot] = w.fence]
                  /\ query_slot' = IF history THEN written ELSE query_slot
                  /\ pending_result' = IF history /\ o.result = "data"
                                       THEN pending_result \ {encode_slot}
                                       ELSE pending_result
                  /\ \E feedback \in (IF o.result = "data"
                                       THEN QueryFeedback(o.query, output_buffer_size)
                                       ELSE {NoSpan}) :
                        enc_ret' = [encode_slot |-> encode_slot, idr |-> idr,
                                    send_idr_data |-> SendIdrData(idr), wait |-> w.res,
                                    query |-> o.query, result |-> o.result,
                                    logged |-> o.logged,
                                    span |-> [offset |-> feedback.offset,
                                              length |-> feedback.length],
                                    first |-> history /\ encode_slot \in pending_result,
                                    source |-> IF history /\ o.query = "eSuccess"
                                               THEN written ELSE NoSlot]
        /\ UNCHANGED <<last_ack, encVars, fbVars, acked, ackedLatest, delivered,
                       overlapped, rcVars, loadVars, initVars>>

encode == Encode(FALSE)

\* the device executes the work submitted for slot k: resetQueryPool(0, 1), the
\* encode operation writing the output buffer from offset 0 and query 0, and
\* the signal of the slot's fence
DeviceSignal(history) ==
    \E k \in RingSlots :
        /\ fences[k] = "pending"
        /\ fences' = [fences EXCEPT ![k] = "signaled"]
        /\ query_slot' = IF history THEN k ELSE query_slot
        /\ UNCHANGED <<enc_ret, pending_result, last_ack, encVars, fbVars, acked, ackedLatest,
                       delivered, overlapped, rcVars, loadVars, initVars>>

device_signal == DeviceSignal(FALSE)

present_image_enc == PresentImage(MaxEncFrame, TRUE)

NextEnc == present_image_enc \/ encode \/ device_signal \/ on_feedback

SpecEnc == Init /\ [][NextEnc]_vars

\* ------------------------------------------------ pipelined encode slots
\* submissions for any slot, device execution and encode(), keeping whose
\* submission the query and the output buffer hold
present_image_pipe == PresentImage(MaxPipeFrame, TRUE)
encode_pipe == Encode(TRUE)
device_signal_pipe == DeviceSignal(TRUE)

NextPipe == present_image_pipe \/ encode_pipe \/ device_signal_pipe

SpecPipe == Init /\ [][NextPipe]_vars

\* ------------------------------------------- submissions, never acknowledged
\* on_feedback is never called: last_ack keeps its initial value
present_image_quiet == PresentImage(MaxQuietFrame, FALSE)

NextQuiet == present_image_quiet

SpecQuiet == Init /\ [][NextQuiet]_vars

\* ------------------------------------------------------- load_all_images
\* scene_data.cpp: images are uploaded through a ring of num_images_in_flight
\* command buffers, each guarded by a fence (first) and holding the staging
\* buffer of its last upload (second, here the index of that image).

\* the submissions on ring position k the device has not completed
Incomplete(work, k) == {i \in work : i % num_images_in_flight = k}

\* device.waitForFences(*fence, true, 1'000'000'000) on ring position k: the
\* result, and fence and device work afterwards. An unsignaled fence is
\* signalled within the second (the work it guards is then complete) or not.
LoadWait(fence, work, k) ==
    IF fence = "signaled"
    THEN {[res |-> "eSuccess", fence |-> fence, work |-> work]}
    ELSE {[res |-> "eSuccess", fence |-> "signaled",
           work |-> work \ Incomplete(work, k)],
          [res |-> "eTimeout", fence |-> fence, work |-> work]}

\* mutant: a timeout ends the call with an error before the position is touched
IterationChecked(res) ==
    IF res = "eSuccess" THEN [overwritten |-> TRUE, error |-> FALSE]
                        ELSE [overwritten |-> FALSE, error |-> TRUE]

\* what the loop body does after the wait: the result is dropped
\* ("TODO check for timeout") and the position is overwritten
Iteration(res) == [overwritten |-> TRUE, error |-> FALSE]

\* load_all_images is called for an asset with some number of images; the
\* fences are created signaled
load_begin ==
    /\ ld_pc = "idle"
    /\ \E n \in 0 .. MaxImages : images' = n
    /\ index' = 0
    /\ ld_pc' = "loop"
    /\ UNCHANGED <<load_fences, inflight, ld_last, last_ack, encVars, fbVars, acked,
                   ackedLatest, delivered, overlapped, rcVars, ringVars, initVars>>

\* one iteration of the loop over gltf.images: wait, do_load_image, resetFences,
\* replace second, submit
load_image ==
    /\ ld_pc = "loop"
    /\ index < images
    /\ LET k == index % num_images_in_flight
       IN  \E w \in LoadWait(load_fences[k].first, inflight, k) :
             LET it == Iteration(w.res)
             IN  /\ ld_last' = [index |-> index, wait |-> w.res,
                                busy |-> it.overwritten /\ Incomplete(w.work, k) # {},
                                overwritten |-> it.overwritten, error |-> it.error]
                 /\ IF it.overwritten
                    THEN /\ load_fences' = [load_fences EXCEPT
                                               ![k] = [first |-> "unsignaled",
                                                       second |-> index]]
                         /\ inflight' = w.work \cup {index}
                         /\ index' = index + 1
                         /\ UNCHANGED ld_pc
                    ELSE /\ load_fences' = [load_fences EXCEPT ![k].first = w.fence]
                         /\ inflight' = w.work
                         /\ ld_pc' = "thrown"
                         /\ UNCHANGED index
    /\ UNCHANGED <<images, last_ack, encVars, fbVars, acked, ackedLatest, delivered,
                   overlapped, rcVars, ringVars, initVars>>

\* the device completes the upload of image i and signals the fence it was
\* submitted with; if that fence was reset and resubmitted meanwhile (invalid
\* use), it is signalled or not
load_complete ==
    \E i \in inflight :
        LET k == i % num_images_in_flight
        IN  /\ inflight' = inflight \ {i}
            /\ \E f \in (IF load_fences[k].second = i
                          THEN {"signaled"}
                          ELSE {"signaled", load_fences[k].first}) :
                  load_fences' = [load_fences EXCEPT ![k].first = f]
            /\ UNCHANGED <<ld_pc, images, index, ld_last, last_ack, encVars, fbVars,
                           acked, ackedLatest, delivered, overlapped, rcVars,
                           ringVars, initVars>>

\* after the loop: waitForFences(fences2, true, 1'000'000'000) on all fences,
\* result dropped, then fences.clear() releases fences and staging buffers
load_finish ==
    /\ ld_pc = "loop"
    /\ index = images
    /\ LET allSignaled == \A k \in LoadSlots : load_fences[k].first = "signaled"
       IN  \E res \in ({"eSuccess"} \cup (IF allSignaled THEN {} ELSE {"eTimeout"})) :
             LET work == IF res = "eSuccess" /\ ~allSignaled THEN {} ELSE inflight
             IN  /\ inflight' = work
                 /\ ld_last' = [index |-> index, wait |-> res, busy |-> work # {},
                                overwritten |-> FALSE, error |-> FALSE]
    /\ load_fences' = [k \in LoadSlots |-> [first |-> "destroyed", second |-> -1]]
    /\ ld_pc' = "done"
    /\ UNCHANGED <<images, index, last_ack, encVars, fbVars, acked, ackedLatest,
                   delivered, overlapped, rcVars, ringVars, initVars>>

NextLoad == load_begin \/ load_image \/ load_complete \/ load_finish

SpecLoad == Init /\ [][NextLoad]_vars

\* ------------------------------------------------------------- the claims
\* obs describes the last submission: obs.dpb is the DPB it found, obs.search the
\* DPB as the reference search saw it (the setup slot already unregistered).

Key(s) == s.frame_index + 1
Registered(s) == s.slotIndex # Unregistered
Occupied(s) == s.frame_index # FreeFrame

\* C1: the setup slot of every submission is the slot with the smallest
\* frame_index + 1 (0 for a free slot), and the lowest such slot on a tie.
C1_SetupSlotIsLeastRecent ==
    nsub > 0 =>
        /\ cmd.encode.slot_index = obs.slot_index
        /\ \A j \in Slots :
              /\ Key(obs.dpb[obs.slot_index]) <= Key(obs.dpb[j])
              /\ Key(obs.dpb[j]) = Key(obs.dpb[obs.slot_index]) => obs.slot_index <= j

\* C1 witness: a submission chose between two free slots, behind an occupied one
C1_Witness ==
    /\ nsub > 0
    /\ Occupied(obs.dpb[0])
    /\ \E i, j \in Slots : i # j /\ ~Occupied(obs.dpb[i]) /\ ~Occupied(obs.dpb[j])
    /\ obs.slot_index = 1

\* C2: when on_feedback(F, true) returned between the submission of frame F and
\* the next submission, and a slot still holds F, the next submission uses that
\* slot as its prediction reference.
C2_AckedFrameIsReference ==
    (nsub > 1 /\ obs.ackedLatest) =>
        \A i \in Slots :
            obs.dpb[i].frame_index = obs.prev_frame =>
                /\ obs.ref_slot = i
                /\ cmd.encode.ref = i

\* C3: a slot that is registered when the submission reads last_ack and holds
\* the frame last_ack names is the prediction reference, and there is no reset.
C3_AckedSlotWins ==
    nsub > 0 =>
        \A i \in Slots :
            (Registered(obs.search[i]) /\ obs.search[i].frame_index = obs.last_ack) =>
                /\ obs.ref_slot = i
                /\ cmd.encode.ref = i
                /\ ~obs.reset
                /\ \A j \in Slots \ {obs.slot_index} : dpb[j] = obs.dpb[j]

\* C3 witness: the acknowledged slot was chosen past the threshold, with a more
\* recent registered slot present
C3_Witness ==
    /\ nsub > 0
    /\ obs.frame_num >= IdrThreshold
    /\ \E i, j \in Slots :
          /\ Registered(obs.search[i]) /\ obs.search[i].frame_index = obs.last_ack
          /\ Registered(obs.search[j])
          /\ obs.search[j].frame_index > obs.search[i].frame_index
          /\ obs.ref_slot = i

\* C4: with no registered slot holding the acknowledged frame, the counter below
\* the threshold and some registered slot, the reference is the registered slot
\* holding the largest frame_index.
C4_FallbackIsMostRecent ==
    (/\ nsub > 0
     /\ obs.frame_num < IdrThreshold
     /\ \A i \in Slots : ~(Registered(obs.search[i])
                             /\ obs.search[i].frame_index = obs.last_ack)
     /\ \E i \in Slots : Registered(obs.search[i])) =>
        /\ obs.ref_slot # nullptr
        /\ Registered(obs.search[obs.ref_slot])
        /\ \A j \in Slots :
              Registered(obs.search[j]) =>
                  obs.search[j].frame_index <= obs.search[obs.ref_slot].frame_index

OthersUntouched == \A j \in Slots \ {obs.slot_index} : dpb[j] = obs.dpb[j]

OthersFreed ==
    \A j \in Slots \ {obs.slot_index} : ~Occupied(dpb[j]) /\ ~Registered(dpb[j])

\* the recorded commands of a full reset: every slot declared unregistered,
\* the counter given to the codec restarted at 0, no reference
ResetRecorded ==
    /\ obs.reset
    /\ \A i \in Slots : cmd.referenceSlots[i] = Unregistered
    /\ cmd.encode.frame_num = 0
    /\ cmd.encode.ref = nullptr

\* C5: with no acknowledgement ever delivered, a submission made with the
\* counter below the threshold, other than the first, performs no reset: it has
\* a prediction reference and leaves the other slots as they were.
C5_NoResetBelowThreshold ==
    (~acked /\ nsub > 1 /\ obs.frame_num < IdrThreshold) =>
        /\ ~obs.reset
        /\ obs.ref_slot # nullptr
        /\ cmd.encode.ref # nullptr
        /\ OthersUntouched

\* C5 witness: the last submission below the threshold, never an acknowledgement
C5_Witness ==
    /\ ~acked
    /\ nsub = IdrThreshold
    /\ obs.frame_num = IdrThreshold - 1
    /\ ~obs.reset

\* C6: with no acknowledgement ever delivered, the submission that follows the
\* first 100 performs a full reset: every slot is declared unregistered, the
\* counter restarts at 0 (and is 1 once this submission is counted), and only
\* the slot just written is registered afterwards.
C6_ResetAfterThreshold ==
    (~acked /\ nsub = IdrThreshold + 1) =>
        /\ obs.frame_num = IdrThreshold
        /\ ResetRecorded
        /\ OthersFreed
        /\ frame_num = 1

\* C6 witness: the 101st submission, never an acknowledgement
C6_Witness == ~acked /\ nsub = IdrThreshold + 1 /\ obs.reset

\* C7: a submission made with the counter at 100 or more and no registered slot
\* holding the acknowledged frame performs a full reset and encodes with no
\* reference, whatever registered slots exist.
C7_NoFallbackPastThreshold ==
    (/\ nsub > 0
     /\ obs.frame_num >= IdrThreshold
     /\ \A i \in Slots : ~(Registered(obs.search[i])
                             /\ obs.search[i].frame_index = obs.last_ack)) =>
        /\ ResetRecorded
        /\ OthersFreed
        /\ frame_num = 1

\* C7 witness: a reset past the threshold although registered slots existed
C7_Witness ==
    /\ nsub > 0
    /\ obs.frame_num > IdrThreshold
    /\ obs.reset
    /\ \E i \in Slots : Registered(obs.search[i])

\* C8: the encoder does not go on predicting from unacknowledged frames: fewer
\* than 100 submissions in a row are coded with a reference while last_ack does
\* not change, so a decoder that has fallen silent gets a full reset.
C8_ResetWhenSilent == quietRun < IdrThreshold

\* C8 witness: acknowledgements were delivered, then 99 submissions in a row were
\* coded with a reference while last_ack stood still; the next one is a reset
C8_Witness ==
    /\ acked
    /\ quietRun = IdrThreshold - 1
    /\ frame_num >= IdrThreshold

\* C9: after on_feedback calls that do not overlap, last_ack is the maximum of
\* its initial value and of the indices delivered with sent_to_decoder = true.
C9_SequentialMax ==
    (~overlapped /\ \A t \in FbThreads : fb_pc[t] = "idle") => last_ack = delivered

\* C10: once all (possibly concurrent) on_feedback calls have returned, last_ack
\* is the maximum of its initial value and of every acknowledged index.
C10_NoAckLost ==
    (\A t \in FbThreads : fb_pc[t] = "idle") => last_ack = delivered

\* C11: last_ack never decreases, whatever the interleaving of on_feedback calls
\* and submissions.
C11_LastAckMonotonic == [][last_ack' >= last_ack]_vars

\* C11 witness: after a submission, a call is about to exchange an index below
\* the value last_ack has reached in the meantime
C11_Witness ==
    /\ nsub > 0
    /\ \E t \in FbThreads :
          /\ fb_pc[t] = "loop"
          /\ fb_prev[t] < fb_arg[t]
          /\ fb_arg[t] < last_ack

\* the encoder state the submission thread owns
SubmissionState == <<dpb, frame_num, session_initialized, cmd, fences>>

\* C12: an on_feedback call whose sent_to_decoder flag is false returns at once
\* and changes neither last_ack nor any other encoder state.
C12_UndeliveredIgnored ==
    [][\A t \in FbThreads :
          (fb_pc[t] = "entry" /\ ~fb_sent[t] /\ fb_pc'[t] # "entry") =>
              /\ fb_pc'[t] = "idle"
              /\ last_ack' = last_ack
              /\ SubmissionState' = SubmissionState]_vars

\* C12 witness: after a submission, an undelivered feedback about a frame newer
\* than last_ack is being handled
C12_Witness ==
    /\ nsub > 0
    /\ \E t \in FbThreads :
          fb_pc[t] = "entry" /\ ~fb_sent[t] /\ fb_arg[t] > last_ack

\* C13: a step of on_feedback changes nothing of the submission thread's state,
\* and a submission does not write last_ack.
C13_OnlyLastAckShared ==
    [][/\ (fbVars' # fbVars) => (SubmissionState' = SubmissionState)
       /\ (last_ack' # last_ack) => (SubmissionState' = SubmissionState)
       /\ (nsub' # nsub) => (last_ack' = last_ack /\ fbVars' = fbVars)]_vars

\* C13 witness: a submission read an acknowledged index and left it in place
C13_Witness ==
    /\ nsub > 0
    /\ obs.last_ack > NoAck
    /\ last_ack >= obs.last_ack

\* the device reported CBR or VBR
Advertised(caps) == caps.rateControlModes \cap {"eCbr", "eVbr"} # {}

\* C14 (as stated): with CBR or VBR advertised and maxBitrate > 0, the average is
\* min(requested, maxBitrate) and the peak is twice the average clamped to
\* maxBitrate.
C14_PeakTwiceAverageClamped ==
    (rc_pc = "constructed" /\ Advertised(in_encode_caps)
        /\ in_encode_caps.maxBitrate > 0) =>
        /\ rate_control_layer.averageBitrate = Min(bitrate, in_encode_caps.maxBitrate)
        /\ rate_control_layer.maxBitrate =
              Min(2 * rate_control_layer.averageBitrate, in_encode_caps.maxBitrate)

\* C14 (amended): with CBR or VBR advertised and maxBitrate > 0, the average is
\* min(requested, maxBitrate); the peak equals the average when CBR is
\* advertised, and is min(2 * requested, maxBitrate) otherwise (VBR only), the
\* product being taken in the unsigned arithmetic of bitrate; whenever the product
\* does not wrap and CBR is not advertised this is twice the average clamped to
\* maxBitrate.
C14_PeakByMode ==
    (rc_pc = "constructed" /\ Advertised(in_encode_caps)
        /\ in_encode_caps.maxBitrate > 0) =>
        LET m == in_encode_caps.maxBitrate
            avg == rate_control_layer.averageBitrate
            peak == rate_control_layer.maxBitrate
        IN  /\ avg = Min(bitrate, m)
            /\ "eCbr" \in in_encode_caps.rateControlModes => peak = avg
            /\ "eCbr" \notin in_encode_caps.rateControlModes =>
                   /\ peak = Min((2 * bitrate) % (2 ^ BitrateBits), m)
                   /\ 2 * bitrate < 2 ^ BitrateBits => peak = Min(2 * avg, m)

\* C14 witness: the request is twice a positive maxBitrate, VBR only: average and
\* peak are both maxBitrate
C14_Witness ==
    /\ rc_pc = "constructed"
    /\ in_encode_caps.rateControlModes = {"eVbr"}
    /\ in_encode_caps.maxBitrate > 0
    /\ bitrate = 2 * in_encode_caps.maxBitrate
    /\ rate_control_layer.averageBitrate = in_encode_caps.maxBitrate
    /\ rate_control_layer.maxBitrate = in_encode_caps.maxBitrate

\* C15: the mode is CBR whenever the patched capabilities advertise CBR, VBR when
\* they advertise VBR and not CBR, and there is no rate-control configuration
\* only when they advertise neither.
C15_CbrThenVbrThenDefault ==
    rc_pc = "constructed" =>
        LET modes == encode_caps.rateControlModes
        IN  /\ "eCbr" \in modes => rate_control.rateControlMode = "eCbr"
            /\ ("eVbr" \in modes /\ "eCbr" \notin modes) =>
                   rate_control.rateControlMode = "eVbr"
            /\ (rate_control = NoRateControl) <=> ~Advertised(encode_caps)

\* C15 witness: both CBR and VBR advertised, CBR selected
C15_Witness ==
    /\ rc_pc = "constructed"
    /\ {"eCbr", "eVbr"} \subseteq encode_caps.rateControlModes
    /\ rate_control.rateControlMode = "eCbr"

\* C16: CBR or VBR advertised with maxBitrate == 0 does not stop construction:
\* the capabilities become the default mode only and no rate control is
\* configured; any other capabilities are left as reported.
C16_ZeroMaxBitrateDowngrades ==
    /\ rc_pc = "new" => ENABLED construct
    /\ rc_pc = "constructed" =>
          IF Advertised(in_encode_caps) /\ in_encode_caps.maxBitrate = 0
          THEN /\ encode_caps.rateControlModes = eDefault
               /\ encode_caps.maxBitrate = 0
               /\ rate_control = NoRateControl
          ELSE encode_caps = in_encode_caps

\* C16 witness: CBR advertised with maxBitrate == 0, constructed without rate
\* control
C16_Witness ==
    /\ rc_pc = "constructed"
    /\ "eCbr" \in in_encode_caps.rateControlModes
    /\ in_encode_caps.maxBitrate = 0
    /\ rate_control = NoRateControl

\* C17: an encode() call whose fence wait gives anything but success throws,
\* returns nothing, does not read the query, and leaves the fences of all encode
\* slots, the DPB, the submission counter, the session flag and last_ack as they
\* were.
C17_WaitFailureThrows ==
    [][(enc_ret' # enc_ret /\ enc_ret'.wait # "eSuccess") =>
          /\ enc_ret'.result = "throw"
          /\ enc_ret'.query = "none"
          /\ ~enc_ret'.logged
          /\ SubmissionState' = SubmissionState
          /\ last_ack' = last_ack]_vars

\* C17 witness: an encode() call timed out while another slot was in flight and
\* an acknowledgement had been stored
C17_Witness ==
    /\ enc_ret.wait = "eTimeout"
    /\ enc_ret.result = "throw"
    /\ fences[enc_ret.encode_slot] = "pending"
    /\ \E k \in RingSlots : k # enc_ret.encode_slot /\ fences[k] = "pending"
    /\ last_ack > NoAck

\* C18 (as stated): an encode() call whose query read gives anything but success
\* ends in an error and returns no data.
C18_QueryFailureFatal ==
    enc_ret.query \notin {"none", "eSuccess"} => enc_ret.result = "throw"

\* C19 (as stated): a ring position is overwritten by a new submission only
\* after its fence was observed signalled, with its previous work complete; a
\* wait that times out is an error and the position is not reused.
C19_NoReuseWhileIncomplete ==
    /\ ld_last.overwritten => (ld_last.wait = "eSuccess" /\ ~ld_last.busy)
    /\ (ld_last.wait = "eTimeout" /\ ld_pc # "done") => ld_last.error

\* C20 (as stated): at most num_images_in_flight submissions are incomplete, and
\* at most one per ring position.
C20_BoundedInFlight ==
    /\ Cardinality(inflight) <= num_images_in_flight
    /\ \A k \in LoadSlots : Cardinality(Incomplete(inflight, k)) <= 1

\* C21 (as stated): when load_all_images releases its fences and staging buffers,
\* no submission on any ring position is still incomplete, also when the final
\* wait timed out.
C21_ShutdownWaits == ld_pc = "done" => ~ld_last.busy

\* C22 (as stated): an encode() call with idr set triggers send_idr_data only
\* after its fence wait has succeeded; a call whose wait failed has not
\* triggered it.
C22_SideChannelAfterWait ==
    enc_ret.wait \notin {"none", "eSuccess"} => ~enc_ret.send_idr_data

\* C23: the session control command and the DPB layout barrier are recorded by
\* the first submission and by no later one, full resets included, and
\* session_initialized is false before the first submission and true ever after.
C23_SessionInitOneShot ==
    /\ session_initialized <=> nsub >= 1
    /\ nsub = 1 => (cmd.control /\ cmd.dpb_barrier)
    /\ nsub > 1 => (~cmd.control /\ ~cmd.dpb_barrier)
    /\ nsub > 1 => \A n \in 1 .. Len(cmd.commands) :
                      cmd.commands[n] \notin {"controlVideoCodingKHR", "pipelineBarrier2"}

\* C23 witness: a later submission performed a full reset and recorded neither
C23_Witness ==
    /\ nsub > 1
    /\ obs.reset
    /\ session_initialized
    /\ ~cmd.control
    /\ ~cmd.dpb_barrier

\* the commands of a submission without those of the session initialization
IsCodingCommand(c) == c \notin {"controlVideoCodingKHR", "pipelineBarrier2"}

\* position of command c in the recorded sequence (0 if absent)
CommandIndex(c) ==
    IF \E n \in 1 .. Len(cmd.commands) : cmd.commands[n] = c
    THEN CHOOSE n \in 1 .. Len(cmd.commands) : cmd.commands[n] = c
    ELSE 0

\* C24: every submission records, in this order: the query reset; the opening of
\* the coding scope declaring all num_dpb_slots reference slots, the setup slot
\* among them as unregistered; then, with the setup slot registered under its own
\* position, begin query, encode (with the chosen reference or none), end query;
\* and the closing of the coding scope. What the session initialization adds
\* lies inside the coding scope, before the query begins.
C24_CommandOrder ==
    nsub >= 1 =>
        /\ SelectSeq(cmd.commands, IsCodingCommand) =
              <<"resetQueryPool", "beginVideoCodingKHR", "beginQuery",
                "encodeVideoKHR", "endQuery", "endVideoCodingKHR", "end">>
        /\ \A n \in 1 .. Len(cmd.commands) :
              ~IsCodingCommand(cmd.commands[n]) =>
                  /\ CommandIndex("beginVideoCodingKHR") < n
                  /\ n < CommandIndex("beginQuery")
        /\ DOMAIN cmd.referenceSlots = Slots
        /\ Cardinality(DOMAIN cmd.referenceSlots) = NumDpbSlots
        /\ cmd.referenceSlots[obs.slot_index] = Unregistered
        /\ cmd.encode.setupSlotIndex = obs.slot_index
        /\ cmd.encode.slot_index = obs.slot_index
        /\ cmd.encode.ref = obs.ref_slot

\* C24 witness: a submission with a prediction reference, and the first
\* submission's commands having been replaced
C24_Witness ==
    /\ nsub > 1
    /\ obs.ref_slot # nullptr
    /\ cmd.encode.ref = obs.ref_slot
    /\ Len(cmd.commands) = 7

\* C25 (as stated): every data view returned by encode() is a non-empty byte
\* range inside the output buffer: length > 0 and offset + length <=
\* output_buffer_size.
C25_ResultInBuffer ==
    enc_ret.result = "data" =>
        /\ enc_ret.span.length > 0
        /\ enc_ret.span.offset + enc_ret.span.length <= output_buffer_size

\* C26: init() throws with no object created and no output buffer size set
\* when the first advertised input format is not the 2-plane 8-bit YUV 4:2:0
\* format, and when no format is advertised for the input or for the reference
\* pictures.
C26_InitRejectsFormat ==
    (/\ init_pc # "new"
     /\ \/ video_formats.src = <<>>
        \/ video_formats.dpb = <<>>
        \/ video_formats.src[1] # ExpectedFormat)
    => (init_pc = "thrown" /\ created = {} /\ output_buffer_size = 0)

\* C26 witness: init() threw on an advertised input format other than the
\* expected one, with reference formats available
C26_Witness ==
    /\ init_pc = "thrown"
    /\ video_formats.src # <<>>
    /\ video_formats.src[1] # ExpectedFormat
    /\ video_formats.dpb # <<>>
    /\ created = {}

\* the smallest multiple of a >= v, for a >= 1
SmallestMultiple(a, v) == CHOOSE m \in v .. (v + a - 1) : m % a = 0

\* C27 (as stated): after init() the output buffer holds at least 3 bytes per
\* pixel; for width * height * 3 >= 1 and alignment >= 1 its size is the
\* smallest multiple of the alignment >= width * height * 3, and for alignment 0
\* it is exactly width * height * 3.
C27_OutputBufferRounded ==
    init_pc = "done" =>
        LET pixels == rect.width * rect.height
            a == video_caps.minBitstreamBufferSizeAlignment
        IN  /\ output_buffer_size >= 3 * pixels
            /\ (3 * pixels >= 1 /\ a >= 1) =>
                   output_buffer_size = SmallestMultiple(a, 3 * pixels)
            /\ a = 0 => output_buffer_size = 3 * pixels

\* What init() computes for the size, in unsigned arithmetic of width w. With
\* v = (width * height * 3) mod 2^w: alignment 0 gives v; v >= 1 and
\* alignment >= 1 give the smallest multiple of the alignment >= v, mod 2^w;
\* v = 0 and alignment >= 1 give (alignment * (1 + (2^w - 1) div alignment))
\* mod 2^w. When neither the product nor the rounded value reaches 2^w, the
\* size is at least 3 bytes per pixel and is the smallest multiple itself.
C27_OutputBufferRoundedModulo ==
    init_pc = "done" =>
        LET pixels == rect.width * rect.height
            a == video_caps.minBitstreamBufferSizeAlignment
            v == U32(3 * pixels)
        IN  /\ a = 0 => output_buffer_size = v
            /\ (v >= 1 /\ a >= 1) =>
                   output_buffer_size = U32(SmallestMultiple(a, v))
            /\ (v = 0 /\ a >= 1) =>
                   output_buffer_size = U32(a * (1 + ((2 ^ SizeBits - 1) \div a)))
            /\ (3 * pixels >= 1 /\ a >= 1
                    /\ SmallestMultiple(a, 3 * pixels) < 2 ^ SizeBits) =>
                   /\ output_buffer_size = SmallestMultiple(a, 3 * pixels)
                   /\ output_buffer_size >= 3 * pixels
            /\ (a = 0 /\ 3 * pixels < 2 ^ SizeBits) => output_buffer_size = 3 * pixels

\* a size that was rounded up, without wrapping, to the next multiple of the
\* alignment
OutputBufferRoundedUp ==
    /\ init_pc = "done"
    /\ video_caps.minBitstreamBufferSizeAlignment >= 2
    /\ 3 * rect.width * rect.height >= 1
    /\ output_buffer_size > 3 * rect.width * rect.height
    /\ output_buffer_size % video_caps.minBitstreamBufferSizeAlignment = 0
    /\ output_buffer_size - 3 * rect.width * rect.height
           < video_caps.minBitstreamBufferSizeAlignment

\* C28: in every submission with a prediction reference, the reference is a slot
\* other than the setup slot, it is occupied, and the frame it holds has a
\* frame_index strictly smaller than the frame submitted; the reference and
\* setup indices handed to the device differ.
C28_ReferenceNotSetupSlot ==
    (nsub >= 1 /\ obs.ref_slot # nullptr) =>
        /\ obs.ref_slot # obs.slot_index
        /\ obs.search[obs.ref_slot].frame_index # FreeFrame
        /\ obs.search[obs.ref_slot].frame_index < obs.frame_index
        /\ dpb[obs.ref_slot].frame_index < dpb[obs.slot_index].frame_index
        /\ cmd.encode.ref # cmd.encode.setupSlotIndex
        /\ cmd.encode.ref = obs.ref_slot

\* C28 witness: the setup slot was registered and held the acknowledged frame;
\* the submission still took another slot as reference
C28_Witness ==
    /\ nsub > NumDpbSlots
    /\ obs.dpb[obs.slot_index].slotIndex # Unregistered
    /\ obs.dpb[obs.slot_index].frame_index = obs.last_ack
    /\ obs.ref_slot # nullptr
    /\ obs.ref_slot # obs.slot_index

\* C29: after every submission a DPB slot is registered exactly when it is
\* occupied, a registered slot's device index is its own position, occupied slots
\* hold pairwise distinct frame indices, and the slot written by the submission
\* holds the largest frame_index of all.
C29_DpbConsistent ==
    nsub >= 1 =>
        /\ \A i \in Slots :
              (dpb[i].slotIndex # Unregistered) <=> (dpb[i].frame_index # FreeFrame)
        /\ \A i \in Slots :
              dpb[i].slotIndex # Unregistered => dpb[i].slotIndex = i
        /\ \A i, j \in Slots :
              (i # j /\ dpb[i].frame_index # FreeFrame
                     /\ dpb[j].frame_index # FreeFrame)
              => dpb[i].frame_index # dpb[j].frame_index
        /\ dpb[obs.slot_index].frame_index = obs.frame_index
        /\ \A i \in Slots : dpb[i].frame_index <= dpb[obs.slot_index].frame_index

\* C29 witness: a full reset of a full DPB left the written slot as the only
\* registered and occupied one
C29_Witness ==
    /\ nsub > NumDpbSlots
    /\ obs.reset
    /\ \A i \in Slots : obs.dpb[i].frame_index # FreeFrame
    /\ dpb[obs.slot_index].slotIndex = obs.slot_index
    /\ \A i \in Slots \ {obs.slot_index} :
          dpb[i].slotIndex = Unregistered /\ dpb[i].frame_index = FreeFrame

\* C30: with no acknowledgement ever delivered, submission n (counted from 1) is
\* coded without reference, with a full reset, exactly when n - 1 is a multiple
\* of 100, and with a reference otherwise; a reset leaves frame_num at 1.
C30_ResetPeriod ==
    nsub >= 1 =>
        /\ obs.reset <=> ((nsub - 1) % IdrThreshold = 0)
        /\ (obs.ref_slot = nullptr) <=> ((nsub - 1) % IdrThreshold = 0)
        /\ (cmd.encode.ref = nullptr) <=> ((nsub - 1) % IdrThreshold = 0)
        /\ frame_num = ((nsub - 1) % IdrThreshold) + 1
        /\ last_ack = NoAck

\* C30 witness: the third full reset, at submission 201
C30_Witness ==
    /\ nsub = 2 * IdrThreshold + 1
    /\ obs.reset
    /\ obs.frame_num = IdrThreshold
    /\ frame_num = 1

\* C31: the idr flag of encode() only triggers send_idr_data: an encode() call
\* leaves the DPB, the submission counter, the session flag and the recorded
\* commands as they were, triggers the side channel exactly when idr is set, and
\* a submission that follows a call with idr set is still coded with a reference,
\* without a full reset, and advances the counter by one.
C31_IdrOnlySideChannel ==
    [][/\ (enc_ret' # enc_ret) =>
             /\ dpb' = dpb
             /\ frame_num' = frame_num
             /\ session_initialized' = session_initialized
             /\ cmd' = cmd
             /\ enc_ret'.send_idr_data <=> enc_ret'.idr
       /\ (enc_ret.idr /\ nsub >= 1 /\ nsub' = nsub + 1) =>
             /\ ~obs'.reset
             /\ obs'.ref_slot # nullptr
             /\ cmd'.encode.ref # nullptr
             /\ frame_num' = frame_num + 1
             /\ \A i \in Slots \ {obs'.slot_index} : dpb'[i] = dpb[i]]_vars

\* C31 witness: encode() with idr set succeeded for a slot, the slot was
\* submitted again afterwards, and that submission has a reference
C31_Witness ==
    /\ enc_ret.idr
    /\ enc_ret.send_idr_data
    /\ enc_ret.wait = "eSuccess"
    /\ fences[enc_ret.encode_slot] = "pending"
    /\ nsub >= 2
    /\ obs.ref_slot # nullptr
    /\ ~obs.reset

\* C32: on_feedback never blocks and always terminates: a call in progress can
\* always take its next step whatever the other calls and the submissions do, a
\* step of its loop either returns or is a successful exchange, and a call makes
\* at most one successful exchange, after which last_ack is at least its
\* frame_index and above its prev, so that its next attempt fails and returns:
\* at most two compare-exchange attempts per call.
C32_FeedbackTerminates ==
    \A t \in FbThreads :
        /\ fb_exchanged[t] <= 1
        /\ fb_exchanged[t] = 1 =>
              /\ fb_pc[t] = "loop"
              /\ fb_prev[t] < fb_arg[t]
              /\ last_ack >= fb_arg[t]
              /\ \A o \in CompareExchangeWeak(last_ack, fb_prev[t], fb_arg[t]) : ~o.ok
        /\ fb_pc[t] # "idle" => ENABLED (fb_entry(t) \/ fb_load(t) \/ fb_loop(t))

\* C32 witness: two calls are in their loops after a submission, one of them
\* has exchanged successfully and the other one's exchange can only fail
C32_Witness ==
    \E t, u \in FbThreads :
        /\ t # u
        /\ nsub >= 1
        /\ fb_pc[t] = "loop" /\ fb_exchanged[t] = 1
        /\ fb_pc[u] = "loop" /\ fb_exchanged[u] = 0
        /\ fb_prev[u] < fb_arg[u]
        /\ last_ack # fb_prev[u]

\* C33 (as stated): the feedback that encode() reads for encode slot k, the
\* first time after the slot's submission, was produced by the submission
\* recorded for slot k, also when a submission for another slot was recorded or
\* executed in between.
C33_ResultOfOwnSlot ==
    (enc_ret.result = "data" /\ enc_ret.query = "eSuccess" /\ enc_ret.first) =>
        enc_ret.source = enc_ret.encode_slot

====
